---- MODULE Spec2Model ----
(***************************************************************************)
(* Model of EnhancedInventoryManager (enhanced_inventory_manager.py): the  *)
(* vehicle table held in a pandas DataFrame, the CSV file it is loaded     *)
(* from and written back to, free-text search and reservation.             *)
(*                                                                         *)
(* Text is modelled by TLA+ strings, taken apart character by character    *)
(* with SubSeq, so that lower(), strip(), split() and substring tests are  *)
(* computed rather than assumed.                                           *)
(***************************************************************************)
EXTENDS Integers, Sequences, FiniteSets, TLC

VARIABLES
    file,            \* the CSV file at inventory_path
    inventory_df,    \* self.inventory_df: None or the DataFrame
    search_history,  \* self.search_history
    ret,             \* the last completed call: operation, arguments, result
    last_load,       \* the value returned by the most recent load_inventory
    reserved_ok,     \* the trimmed VINs for which a reserve_vehicle call has returned True
    pc,              \* position of each concurrent caller inside its call
    loc,             \* local variables of each concurrent caller
    quicksort_ties   \* how this build's sort_values orders rows of equal score

vars == <<file, inventory_df, search_history, ret, last_load, reserved_ok, pc, loc,
          quicksort_ties>>

-----------------------------------------------------------------------------
(* Bounds of the model *)

MaxRows == 2         \* rows in the CSV file of an initial state
MaxHistory == 1      \* searches recorded in one behaviour
MaxRepeat == 2       \* searches in a run that repeats a search

-----------------------------------------------------------------------------
(* Python values *)

None == [none |-> TRUE]
NaN == "NaN"                    \* pandas' missing value

-----------------------------------------------------------------------------
(* str methods *)

UpperChars == "ABCDEFGHIJKLMNOPQRSTUVWXYZÁÉÍÓÚÑ"
LowerChars == "abcdefghijklmnopqrstuvwxyzáéíóúñ"
Whitespace == {" ", "\t", "\n"}
Digits == "0123456789"

\* s[a-1:b] with Python's clipping of the slice to the string
Slice(s, a, b) ==
    IF a > b \/ a > Len(s) \/ b < 1 THEN ""
    ELSE SubSeq(s, IF a < 1 THEN 1 ELSE a, IF b > Len(s) THEN Len(s) ELSE b)

CharAt(s, i) == Slice(s, i, i)

\* the lower-case form of every upper-case character, and the reverse
LowerOf ==
    [c \in {CharAt(UpperChars, i) : i \in 1..Len(UpperChars)} |->
        CharAt(LowerChars, CHOOSE i \in 1..Len(UpperChars) : CharAt(UpperChars, i) = c)]

UpperOf ==
    [c \in {CharAt(LowerChars, i) : i \in 1..Len(LowerChars)} |->
        CharAt(UpperChars, CHOOSE i \in 1..Len(LowerChars) : CharAt(LowerChars, i) = c)]

\* str.lower() of one character
LowerChar(c) == IF c \in DOMAIN LowerOf THEN LowerOf[c] ELSE c

RECURSIVE Lower(_)
Lower(s) == IF s = "" THEN "" ELSE LowerChar(CharAt(s, 1)) \o Lower(Tail(s))

\* str.upper() of one character
UpperChar(c) == IF c \in DOMAIN UpperOf THEN UpperOf[c] ELSE c

\* str.capitalize(): first character upper case, the rest lower case
Capitalize(s) == IF s = "" THEN "" ELSE UpperChar(CharAt(s, 1)) \o Lower(Tail(s))

IsLetter(c) == c \in DOMAIN LowerOf \/ c \in DOMAIN UpperOf

\* str.title(): every letter that follows a non-letter is upper case, the others lower case
RECURSIVE TitleFrom(_, _)
TitleFrom(s, afterLetter) ==
    IF s = "" THEN ""
    ELSE LET c == CharAt(s, 1)
         IN  (IF afterLetter THEN LowerChar(c) ELSE UpperChar(c))
                 \o TitleFrom(Tail(s), IsLetter(c))

Title(s) == TitleFrom(s, FALSE)

RECURSIVE LStrip(_)
LStrip(s) == IF s # "" /\ CharAt(s, 1) \in Whitespace THEN LStrip(Tail(s)) ELSE s

RECURSIVE RStrip(_)
RStrip(s) ==
    IF s # "" /\ CharAt(s, Len(s)) \in Whitespace THEN RStrip(SubSeq(s, 1, Len(s) - 1)) ELSE s

\* str.strip()
Strip(s) == RStrip(LStrip(s))

\* k in s
Contains(s, k) == \E i \in 1..(Len(s) - Len(k) + 1) : SubSeq(s, i, i + Len(k) - 1) = k

StartsWith(s, k) == Len(k) <= Len(s) /\ SubSeq(s, 1, Len(k)) = k

\* s.split(sep) for a one-character separator: the pieces between separators, empty ones included
RECURSIVE SplitOn(_, _, _)
SplitOn(s, sep, cur) ==
    IF s = "" THEN <<cur>>
    ELSE IF CharAt(s, 1) = sep THEN <<cur>> \o SplitOn(Tail(s), sep, "")
    ELSE SplitOn(Tail(s), sep, cur \o CharAt(s, 1))

\* s.split(): the maximal runs of non-whitespace characters
RECURSIVE SplitWords(_, _)
SplitWords(s, cur) ==
    IF s = "" THEN (IF cur = "" THEN <<>> ELSE <<cur>>)
    ELSE IF CharAt(s, 1) \in Whitespace
         THEN (IF cur = "" THEN <<>> ELSE <<cur>>) \o SplitWords(Tail(s), "")
         ELSE SplitWords(Tail(s), cur \o CharAt(s, 1))

Split(s) == SplitWords(s, "")

\* sep.join(parts)
RECURSIVE Join(_, _)
Join(sep, parts) ==
    IF parts = <<>> THEN ""
    ELSE IF Len(parts) = 1 THEN parts[1]
    ELSE parts[1] \o sep \o Join(sep, Tail(parts))

\* the value of every decimal digit
DigitOf == [c \in {CharAt(Digits, i) : i \in 1..10} |-> (CHOOSE i \in 1..10 : CharAt(Digits, i) = c) - 1]

IsDigit(c) == c \in DOMAIN DigitOf

DigitVal(c) == DigitOf[c]

\* int(s) for a string of decimal digits
RECURSIVE StrToIntAcc(_, _)
StrToIntAcc(s, acc) ==
    IF s = "" THEN acc ELSE StrToIntAcc(Tail(s), 10 * acc + DigitVal(CharAt(s, 1)))

StrToInt(s) == StrToIntAcc(s, 0)

IsNumber(s) == s # "" /\ \A i \in 1..Len(s) : IsDigit(CharAt(s, i))

\* str(n) for a natural number
RECURSIVE IntToStr(_)
IntToStr(n) ==
    IF n < 10 THEN CharAt(Digits, n + 1)
    ELSE IntToStr(n \div 10) \o CharAt(Digits, (n % 10) + 1)

-----------------------------------------------------------------------------
(* The CSV file and pandas' reading and writing of it *)

\* load_inventory: required_columns
RequiredColumns ==
    {"year", "make", "model", "body_styles", "color", "mileage", "price", "fuel_type",
     "engine", "transmission", "safety_rating", "trunk_space_liters", "features",
     "condition", "location", "vin"}

\* the columns load_inventory derives
DerivedColumns == {"features_list", "body_styles_list", "search_text"}

\* columns read_csv turns into integers
IntColumns == {"year", "mileage", "price", "safety_rating", "trunk_space_liters"}

\* cell texts read_csv reads as a missing value
NaValues == {"", "NaN", "nan", "NA", "N/A", "NULL", "null", "None"}

\* read_csv on one cell of a text column
ReadCell(text) == IF text \in NaValues THEN NaN ELSE text

\* to_csv on one cell of a text column
WriteCell(v) == IF v = NaN THEN "" ELSE v

\* read_csv on one row; the derived list columns are recomputed by every load that
\* gets past the column check, so their cells are not kept
ReadRow(r) ==
    [c \in DOMAIN r |->
        IF c \in IntColumns THEN StrToInt(r[c]) ELSE ReadCell(r[c])]

\* pd.read_csv(self.inventory_path) on a readable file
ReadCsv(f) ==
    [columns |-> f.columns,
     rows    |-> [i \in 1..Len(f.rows) |-> ReadRow(f.rows[i])]]

\* the cells to_csv writes for one row
WriteRow(row, columns) ==
    [c \in (RequiredColumns \cup {"status", "search_text"}) |->
        IF c \in IntColumns THEN IntToStr(row[c])
        ELSE IF c \in columns THEN WriteCell(row[c])
        ELSE ""]

\* self.inventory_df.to_csv(self.inventory_path, index=False), written in full
ToCsv(df) ==
    [state   |-> "ok",
     columns |-> df.columns,
     rows    |-> [i \in 1..Len(df.rows) |-> WriteRow(df.rows[i], df.columns)]]

\* what a to_csv that raises can leave behind: the file as it was (it could not be
\* opened), an empty file (truncated on opening), or the header with the first k rows
PartialWrites(df, old) ==
    {old, [state |-> "unreadable", columns |-> {}, rows |-> <<>>]}
      \cup {[ToCsv(df) EXCEPT !.rows = SubSeq(@, 1, k)] : k \in 0..Len(df.rows)}

-----------------------------------------------------------------------------
(* load_inventory and its helpers *)

\* _parse_features
ParseFeatures(features_str) ==
    IF features_str = NaN THEN <<>>
    ELSE LET parts == SplitOn(features_str, ",", "")
         IN  [i \in 1..Len(parts) |-> Strip(parts[i])]

\* json.loads of a bracketed list of quoted strings, after replace("'", '"'):
\* <<TRUE, list>> when the text is such a list, <<FALSE, <<>>>> when json.loads raises
JsonItem(t) ==
    LET u == Strip(t)
    IN  IF Len(u) >= 2 /\ CharAt(u, 1) \in {"'", "\""} /\ CharAt(u, Len(u)) \in {"'", "\""}
           /\ ~Contains(SubSeq(u, 2, Len(u) - 1), "'")
           /\ ~Contains(SubSeq(u, 2, Len(u) - 1), "\"")
        THEN <<TRUE, SubSeq(u, 2, Len(u) - 1)>>
        ELSE <<FALSE, "">>

JsonLoadsList(s) ==
    LET t == Strip(s)
    IN  IF Len(t) < 2 \/ CharAt(t, Len(t)) # "]" THEN <<FALSE, <<>>>>
        ELSE LET inner == SubSeq(t, 2, Len(t) - 1)
                 parts == SplitOn(inner, ",", "")
                 items == [i \in 1..Len(parts) |-> JsonItem(parts[i])]
             IN  IF Strip(inner) = "" THEN <<TRUE, <<>>>>
                 ELSE IF \A i \in 1..Len(items) : items[i][1]
                 THEN <<TRUE, [i \in 1..Len(items) |-> items[i][2]]>>
                 ELSE <<FALSE, <<>>>>

\* _parse_body_styles
ParseBodyStyles(body_styles_str) ==
    IF body_styles_str = NaN THEN <<>>
    ELSE IF StartsWith(body_styles_str, "[")
         THEN LET j == JsonLoadsList(body_styles_str)
              IN  IF j[1] THEN j[2] ELSE <<body_styles_str>>
         ELSE <<body_styles_str>>

\* the parts _create_search_text joins; a missing value among them makes join raise
SearchTextParts(row) ==
    <<IntToStr(row.year), row.make, row.model, row.color, row.fuel_type, row.condition,
      Join(" ", row.features_list), Join(" ", row.body_styles_list), row.status>>

CreateSearchTextRaises(row) ==
    \E i \in 1..Len(SearchTextParts(row)) : SearchTextParts(row)[i] = NaN

\* _create_search_text
CreateSearchText(row) == Lower(Join(" ", SearchTextParts(row)))

\* load_inventory lines 77-82: the status column is added, or its missing cells filled
FillStatus(df) ==
    [columns |-> df.columns \cup {"status"},
     rows    |-> [i \in 1..Len(df.rows) |->
                    [df.rows[i] EXCEPT !.status =
                        IF "status" \in df.columns /\ @ # NaN THEN @ ELSE "Available"]]]

\* load_inventory lines 85-86: the two list columns
AddLists(df) ==
    [columns |-> df.columns \cup {"features_list", "body_styles_list"},
     rows    |-> [i \in 1..Len(df.rows) |->
                    df.rows[i] @@ [features_list    |-> ParseFeatures(df.rows[i].features),
                                   body_styles_list |-> ParseBodyStyles(df.rows[i].body_styles)]]]

\* load_inventory line 87: the search text of every row
AddSearchText(df) ==
    [columns |-> df.columns \cup {"search_text"},
     rows    |-> [i \in 1..Len(df.rows) |->
                    [df.rows[i] EXCEPT !.search_text = CreateSearchText(df.rows[i])]]]

\* read_csv gives a column whose cells are all numbers or missing, one number at least, a
\* numeric dtype; _parse_features and _parse_body_styles call str methods on its cells
\* (AttributeError)
NumericColumn(df, col) ==
    /\ \E i \in 1..Len(df.rows) : df.rows[i][col] # NaN
    /\ \A i \in 1..Len(df.rows) : df.rows[i][col] = NaN \/ IsNumber(df.rows[i][col])

\* load_inventory: the possible pairs of new self.inventory_df and returned value.
\* Line 85 or 86 raising leaves the table as far as it was built.
\* With no rows, DataFrame.apply(axis=1) yields a frame instead of a column and the
\* assignment of line 87 raises or not depending on the pandas release.
LoadInventory(f, old) ==
    IF f.state = "unreadable" THEN {[df |-> old, result |-> FALSE]}
    ELSE IF RequiredColumns \ f.columns # {} THEN {[df |-> None, result |-> FALSE]}
    ELSE IF NumericColumn(ReadCsv(f), "features")
    THEN {[df |-> FillStatus(ReadCsv(f)), result |-> FALSE]}
    ELSE IF NumericColumn(ReadCsv(f), "body_styles")
    THEN {[df |-> [AddLists(FillStatus(ReadCsv(f))) EXCEPT !.columns = @ \ {"body_styles_list"}],
           result |-> FALSE]}
    ELSE LET df == AddLists(FillStatus(ReadCsv(f)))
         IN  IF df.rows = <<>>
             THEN {[df |-> df, result |-> FALSE], [df |-> AddSearchText(df), result |-> TRUE]}
             ELSE IF \E i \in 1..Len(df.rows) : CreateSearchTextRaises(df.rows[i])
             THEN {[df |-> df, result |-> FALSE]}
             ELSE {[df |-> AddSearchText(df), result |-> TRUE]}

-----------------------------------------------------------------------------
(* _parse_search_query *)

\* number of consecutive digits of s from position i on
RECURSIVE DigitRun(_, _)
DigitRun(s, i) == IF i <= Len(s) /\ IsDigit(CharAt(s, i)) THEN 1 + DigitRun(s, i + 1) ELSE 0

\* re.search of  pre (\d+) post  in s, pre not ending and post not starting with a digit:
\* the start positions of a match
NumMatches(s, pre, post) ==
    {i \in 1..Len(s) :
        /\ Slice(s, i, i + Len(pre) - 1) = pre
        /\ DigitRun(s, i + Len(pre)) > 0
        /\ LET e == i + Len(pre) + DigitRun(s, i + Len(pre))
           IN  Slice(s, e, e + Len(post) - 1) = post}

Min(S) == CHOOSE x \in S : \A y \in S : x <= y

\* group(1) of the leftmost match
NumGroup(s, pre, post) ==
    LET i == Min(NumMatches(s, pre, post))
    IN  Slice(s, i + Len(pre), i + Len(pre) + DigitRun(s, i + Len(pre)) - 1)

\* re.search of  pre (\d+) mid (\d+)  in s: the start positions of a match
\* (a match that starts inside a run of digits is preceded by one starting at the run's start)
PairMatches(s, pre, mid) ==
    {i \in 1..Len(s) :
        /\ Slice(s, i, i + Len(pre) - 1) = pre
        /\ DigitRun(s, i + Len(pre)) > 0
        /\ LET e == i + Len(pre) + DigitRun(s, i + Len(pre))
           IN  /\ Slice(s, e, e + Len(mid) - 1) = mid
               /\ DigitRun(s, e + Len(mid)) > 0}

PairGroups(s, pre, mid) ==
    LET i == Min(PairMatches(s, pre, mid))
        b == i + Len(pre)
        e == b + DigitRun(s, b)
        c == e + Len(mid)
    IN  <<Slice(s, b, e - 1), Slice(s, c, c + DigitRun(s, c) - 1)>>

\* price_patterns, in list order: groups is len(match.groups())
price_patterns ==
    <<[groups |-> 1, pre |-> "menos de ",       mid |-> ""],
      [groups |-> 1, pre |-> "bajo ",           mid |-> ""],
      [groups |-> 1, pre |-> "máximo ",         mid |-> ""],
      [groups |-> 1, pre |-> "hasta ",          mid |-> ""],
      [groups |-> 2, pre |-> "entre ",          mid |-> " y "],
      [groups |-> 2, pre |-> "",                mid |-> " a "],
      [groups |-> 1, pre |-> "presupuesto de ", mid |-> ""]>>

PriceMatches(q, p) ==
    IF p.groups = 1 THEN NumMatches(q, p.pre, "") # {} ELSE PairMatches(q, p.pre, p.mid) # {}

\* the price taken from the last pattern of the list that matches
ParsePriceLastPattern(q) ==
    LET hits == {k \in 1..Len(price_patterns) : PriceMatches(q, price_patterns[k])}
    IN  IF hits = {} THEN <<>>
        ELSE LET p == price_patterns[CHOOSE k \in hits : \A j \in hits : j <= k]
             IN  IF p.groups = 1
                 THEN [max_price |-> StrToInt(NumGroup(q, p.pre, ""))]
                 ELSE [min_price |-> StrToInt(PairGroups(q, p.pre, p.mid)[1]),
                       max_price |-> StrToInt(PairGroups(q, p.pre, p.mid)[2])]

\* lines 184-192: the first pattern that matches decides, then break
ParsePrice(q) ==
    LET hits == {k \in 1..Len(price_patterns) : PriceMatches(q, price_patterns[k])}
    IN  IF hits = {} THEN <<>>
        ELSE LET p == price_patterns[Min(hits)]
             IN  IF p.groups = 1
                 THEN [max_price |-> StrToInt(NumGroup(q, p.pre, ""))]
                 ELSE [min_price |-> StrToInt(PairGroups(q, p.pre, p.mid)[1]),
                       max_price |-> StrToInt(PairGroups(q, p.pre, p.mid)[2])]

\* mileage_patterns, in list order: text is the pattern's source text, pre/post/num say
\* how it matches a query
mileage_patterns ==
    <<[text |-> "pocos kilómetros",           num |-> FALSE, pre |-> "pocos kilómetros", post |-> ""],
      [text |-> "bajo kilometraje",           num |-> FALSE, pre |-> "bajo kilometraje", post |-> ""],
      [text |-> "menos de (\\d+) km",         num |-> TRUE,  pre |-> "menos de ",        post |-> " km"],
      [text |-> "máximo (\\d+) kilómetros",   num |-> TRUE,  pre |-> "máximo ",          post |-> " kilómetros"]>>

MileageMatches(q, p) ==
    IF p.num THEN NumMatches(q, p.pre, p.post) # {} ELSE Contains(q, p.pre)

\* lines 202-210: the first pattern that matches decides; for the numeric patterns the
\* number is searched with re.search(r'(\d+)', pattern), that is in the pattern's own text
ParseMileage(q) ==
    LET hits == {k \in 1..Len(mileage_patterns) : MileageMatches(q, mileage_patterns[k])}
    IN  IF hits = {} THEN <<>>
        ELSE LET p == mileage_patterns[Min(hits)]
             IN  IF Contains(p.text, "pocos") \/ Contains(p.text, "bajo")
                 THEN [max_mileage |-> 20000]
                 ELSE IF NumMatches(p.text, "", "") # {}
                      THEN [max_mileage |-> StrToInt(NumGroup(p.text, "", ""))]
                      ELSE <<>>

colors == <<"rojo", "negro", "blanco", "azul", "gris", "verde", "amarillo", "naranja">>

body_styles ==
    <<[key |-> "sedan",     keywords |-> {"sedan", "sedán"}],
      [key |-> "suv",       keywords |-> {"suv", "todoterreno", "camioneta"}],
      [key |-> "pickup",    keywords |-> {"pickup", "pick-up", "camioneta"}],
      [key |-> "hatchback", keywords |-> {"hatchback", "compacto"}],
      [key |-> "coupe",     keywords |-> {"coupe", "coupé", "deportivo"}],
      [key |-> "van",       keywords |-> {"van", "furgoneta", "monovolumen"}]>>

makes ==
    <<"audi", "bmw", "mercedes", "toyota", "honda", "ford", "volkswagen",
      "nissan", "hyundai", "kia", "mazda", "subaru", "lexus", "acura",
      "infiniti", "volvo", "cadillac", "genesis", "jaguar", "land rover",
      "porsche", "tesla", "aston martin", "ferrari", "lamborghini">>

fuel_types ==
    <<[key |-> "híbrido",   keywords |-> {"híbrido", "hibrido", "hybrid"}],
      [key |-> "eléctrico", keywords |-> {"eléctrico", "electrico", "electric"}],
      [key |-> "gasolina",  keywords |-> {"gasolina", "gasoline"}],
      [key |-> "diesel",    keywords |-> {"diesel", "diésel"}]>>

feature_keywords ==
    <<[key |-> "seguridad",  keywords |-> {"seguro", "seguridad", "safety"}],
      [key |-> "lujo",       keywords |-> {"lujo", "luxury", "premium"}],
      [key |-> "deportivo",  keywords |-> {"deportivo", "sport", "performance"}],
      [key |-> "familiar",   keywords |-> {"familiar", "family", "bebé", "niños"}],
      [key |-> "maletero",   keywords |-> {"maletero", "trunk", "espacio", "carga"}],
      [key |-> "tecnología", keywords |-> {"tecnología", "tech", "navegación", "pantalla"}]>>

\* the entries of a word list that occur in q, in list order
WordHits(q, words) == {k \in 1..Len(words) : Contains(q, words[k])}

\* the first entry only of a keyword table with a keyword occurring in q
TableHitsFirstOnly(q, table) ==
    {k \in 1..Len(table) :
        /\ \E w \in table[k].keywords : Contains(q, w)
        /\ \A j \in 1..(k - 1) : \A w \in table[j].keywords : ~Contains(q, w)}

\* the entries of a keyword table with a keyword occurring in q
TableHits(q, table) == {k \in 1..Len(table) : \E w \in table[k].keywords : Contains(q, w)}

\* the members of a set of positions as an increasing sequence
RECURSIVE Ascending(_)
Ascending(S) == IF S = {} THEN <<>> ELSE <<Min(S)>> \o Ascending(S \ {Min(S)})

\* _parse_search_query: the criteria dict, a function on the keys that were set
ParseQuery(query) ==
    LET q  == Lower(query)
        ch == WordHits(q, colors)
        bh == TableHits(q, body_styles)
        mh == WordHits(q, makes)
        fh == TableHits(q, fuel_types)
        rh == Ascending(TableHits(q, feature_keywords))
    IN  ParsePrice(q) @@ ParseMileage(q)
          @@ (IF ch = {} THEN <<>> ELSE [color |-> Capitalize(colors[Min(ch)])])
          @@ (IF bh = {} THEN <<>> ELSE [body_style |-> body_styles[Min(bh)].key])
          @@ (IF mh = {} THEN <<>> ELSE [make |-> Title(makes[Min(mh)])])
          @@ (IF fh = {} THEN <<>> ELSE [fuel_type |-> Capitalize(fuel_types[Min(fh)].key)])
          @@ [required_features |-> [k \in 1..Len(rh) |-> feature_keywords[rh[k]].key]]

Has(criteria, key) == key \in DOMAIN criteria

\* the queries the model searches with
Queries == {"", "sedan rojo menos de 20000"}

SearchQueries ==
    Queries \cup
    {"BMW sedan rojo", "toyota híbrido entre 20000 y 30000", "suv negro diesel deportivo",
     "coche seguro pocos kilómetros", "camioneta menos de 25000 km", "15000 a 60000 gasolina",
     "presupuesto de 30000 máximo 20000", "Toyota sedán rojo",
     "Toyota o BMW Familiar Premium en Negro o Rojo, gasolina o híbrido"}

\* _parse_search_query and query.lower().split() for the queries of the model, computed once
ParsedQueries == [q \in SearchQueries |-> ParseQuery(q)]

QueryWordsOf == [q \in SearchQueries |-> Split(Lower(q))]

ParseSearchQuery(query) ==
    IF query \in DOMAIN ParsedQueries THEN ParsedQueries[query] ELSE ParseQuery(query)

\* line 317: query.lower().split()
QueryWords(query) ==
    IF query \in DOMAIN QueryWordsOf THEN QueryWordsOf[query] ELSE Split(Lower(query))

-----------------------------------------------------------------------------
(* intelligent_search: filter, score, sort, convert *)

\* DataFrame.empty
Empty(df) == df.rows = <<>>

\* df[col].str raises AttributeError on a column without a single text value (read_csv
\* gives a column of missing values only a numeric dtype)
StrAccessorRaises(df, col) ==
    df.rows # <<>> /\ \A i \in 1..Len(df.rows) : df.rows[i][col] = NaN

\* series.str.lower() == criterion.lower() on one cell; a missing value compares unequal
TextEquals(cell, criterion) == cell # NaN /\ Lower(cell) = Lower(criterion)

\* any(criteria['body_style'].lower() in style.lower() for style in styles)
BodyStyleMatches(styles, criterion) ==
    \E k \in 1..Len(styles) : Contains(Lower(styles[k]), Lower(criterion))

\* _apply_search_filters without the max_price mask of lines 281-282
PassesFiltersNoMaxPrice(row, criteria) ==
    /\ Has(criteria, "min_price") => row.price >= criteria.min_price
    /\ Has(criteria, "max_mileage") => row.mileage <= criteria.max_mileage
    /\ Has(criteria, "color") => TextEquals(row.color, criteria.color)
    /\ Has(criteria, "make") => TextEquals(row.make, criteria.make)
    /\ Has(criteria, "body_style") => BodyStyleMatches(row.body_styles_list, criteria.body_style)
    /\ Has(criteria, "fuel_type") => TextEquals(row.fuel_type, criteria.fuel_type)

\* the conjunction of the masks of _apply_search_filters on one row
PassesFilters(row, criteria) ==
    /\ Has(criteria, "min_price") => row.price >= criteria.min_price
    /\ Has(criteria, "max_price") => row.price <= criteria.max_price
    /\ Has(criteria, "max_mileage") => row.mileage <= criteria.max_mileage
    /\ Has(criteria, "color") => TextEquals(row.color, criteria.color)
    /\ Has(criteria, "make") => TextEquals(row.make, criteria.make)
    /\ Has(criteria, "body_style") => BodyStyleMatches(row.body_styles_list, criteria.body_style)
    /\ Has(criteria, "fuel_type") => TextEquals(row.fuel_type, criteria.fuel_type)

ApplySearchFiltersRaises(df, criteria) ==
    \E col \in {"color", "make", "fuel_type"} : Has(criteria, col) /\ StrAccessorRaises(df, col)

\* a filter stage that keeps every row
ApplySearchFiltersKeepAll(df, idxs, criteria) == idxs

\* _apply_search_filters on the rows at positions idxs of df: the positions kept, in order
ApplySearchFilters(df, idxs, criteria) ==
    SelectSeq(idxs, LAMBDA i : PassesFilters(df.rows[i], criteria))

\* line 138 without the status mask: every row is searched
ActiveInventoryAllRows(df) == [i \in 1..Len(df.rows) |-> i]

\* line 138: the rows whose status is 'Available'
ActiveInventory(df) ==
    SelectSeq([i \in 1..Len(df.rows) |-> i], LAMBDA i : df.rows[i].status = "Available")

\* line 324: the number of query words found in the row's search text
TextMatchCount(row, query_words) ==
    Cardinality({k \in 1..Len(query_words) : Contains(row.search_text, query_words[k])})

\* line 324 raises when there is a word to look for and no text to look in
TextMatchRaises(df, row, query_words) ==
    query_words # <<>> /\ ("search_text" \notin df.columns \/ row.search_text = NaN)

\* the tags found in the features as they are written, upper and lower case apart
FeatureHitsCaseSensitive(row, criteria) ==
    SelectSeq(criteria.required_features,
              LAMBDA t : \E k \in 1..Len(row.features_list) :
                             Contains(row.features_list[k], t))

\* the required_features tags with a hit among the row's features, in criteria order
FeatureHits(row, criteria) ==
    SelectSeq(criteria.required_features,
              LAMBDA t : \E k \in 1..Len(row.features_list) :
                             Contains(Lower(row.features_list[k]), Lower(t)))

\* a contribution that adds its points and appends no reason
BonusSilent(cond, points, reason) ==
    [points |-> IF cond THEN points ELSE 0, reasons |-> <<>>]

\* one contribution to the score: points and the reason appended with them
Bonus(cond, points, reason) ==
    IF cond THEN [points |-> points, reasons |-> <<reason>>] ELSE [points |-> 0, reasons |-> <<>>]

\* lines 329-373 for one row: the contributions after the text match, in code order
Bonuses(row, criteria) ==
    <<Bonus(Has(criteria, "color") /\ TextEquals(row.color, criteria.color), 25,
            "Color exacto: " \o (IF Has(criteria, "color") THEN criteria.color ELSE "")),
      Bonus(Has(criteria, "make") /\ TextEquals(row.make, criteria.make), 30,
            "Marca exacta: " \o (IF Has(criteria, "make") THEN criteria.make ELSE "")),
      Bonus(Has(criteria, "body_style")
              /\ BodyStyleMatches(row.body_styles_list, criteria.body_style), 25,
            "Tipo de carrocería: " \o (IF Has(criteria, "body_style") THEN criteria.body_style ELSE "")),
      IF row.condition = "Excelente" THEN Bonus(TRUE, 10, "Condición excelente")
      ELSE Bonus(row.condition = "Muy bueno", 5, "Muy buena condición"),
      IF row.mileage < 15000 THEN Bonus(TRUE, 15, "Bajo kilometraje")
      ELSE Bonus(row.mileage < 25000, 10, "Kilometraje moderado"),
      Bonus(row.safety_rating = 5, 10, "Máxima calificación de seguridad"),
      [points  |-> 15 * Len(FeatureHits(row, criteria)),
       reasons |-> [k \in 1..Len(FeatureHits(row, criteria)) |->
                       "Característica requerida: " \o FeatureHits(row, criteria)[k]]]>>

RECURSIVE SumPoints(_)
SumPoints(bs) == IF bs = <<>> THEN 0 ELSE bs[1].points + SumPoints(Tail(bs))

RECURSIVE AllReasons(_)
AllReasons(bs) == IF bs = <<>> THEN <<>> ELSE bs[1].reasons \o AllReasons(Tail(bs))

\* the score of one row as the fraction num/den, den being the number of query words
\* (1 when there is none): (text_matches / len(query_words)) * 30 plus the bonuses
RowScore(row, query_words, criteria) ==
    LET n  == Len(query_words)
        m  == TextMatchCount(row, query_words)
        bs == Bonuses(row, criteria)
    IN  [match_score   |-> [num |-> IF n = 0 THEN SumPoints(bs) ELSE 30 * m + n * SumPoints(bs),
                            den |-> IF n = 0 THEN 1 ELSE n],
         match_reasons |-> (IF m > 0
                            THEN <<"Coincidencia de texto (" \o IntToStr(m) \o "/"
                                      \o IntToStr(n) \o " palabras)">>
                            ELSE <<>>) \o AllReasons(bs)]

ScoreLess(a, b) == a.num * b.den < b.num * a.den

\* the orders in which sort_values, whose default kind is 'quicksort', can leave rows of
\* equal score: as they were, or the other way round. Which one is a matter of the numpy
\* build (its quicksort is not a stable sort).
TieOrders == {"kept", "reversed"}

\* sort_values('relevance_score', ascending=False), rows of equal score left in the
\* order ties
RECURSIVE SortValues(_, _)
SortValues(scored, ties) ==
    IF scored = <<>> THEN <<>>
    ELSE LET top(i) == \A j \in 1..Len(scored) :
                           ~ScoreLess(scored[i].match_score, scored[j].match_score)
             best == IF ties = "reversed"
                     THEN CHOOSE i \in 1..Len(scored) :
                              top(i) /\ \A j \in (i + 1)..Len(scored) : ~top(j)
                     ELSE CHOOSE i \in 1..Len(scored) :
                              top(i) /\ \A j \in 1..(i - 1) : ~top(j)
         IN  <<scored[best]>>
               \o SortValues([k \in 1..(Len(scored) - 1) |->
                                 IF k < best THEN scored[k] ELSE scored[k + 1]], ties)

\* lines 319-376: position, score and reasons of the rows at positions idxs, in their order
ScoreRows(df, idxs, query, criteria) ==
    [k \in 1..Len(idxs) |->
        [idx |-> idxs[k]] @@ RowScore(df.rows[idxs[k]], QueryWords(query), criteria)]

\* _calculate_relevance_scores without the sort of line 378
CalculateRelevanceScoresUnsorted(df, idxs, query, criteria, ties) ==
    ScoreRows(df, idxs, query, criteria)

\* _calculate_relevance_scores on the rows at positions idxs
CalculateRelevanceScores(df, idxs, query, criteria, ties) ==
    SortValues(ScoreRows(df, idxs, query, criteria), ties)

CalculateRelevanceScoresRaises(df, idxs, query) ==
    \E k \in 1..Len(idxs) : TextMatchRaises(df, df.rows[idxs[k]], QueryWords(query))

\* DataFrame.head with a count that shrinks with every search recorded
HeadRowsByHistory(s, n) ==
    SubSeq(s, 1, IF n - Len(search_history) < Len(s)
                 THEN (IF n - Len(search_history) > 0 THEN n - Len(search_history) ELSE 0)
                 ELSE Len(s))

\* DataFrame.head(n): the first n rows, or all but the last -n rows when n is negative
HeadRows(s, n) ==
    IF n >= 0 THEN SubSeq(s, 1, IF n < Len(s) THEN n ELSE Len(s))
    ELSE SubSeq(s, 1, IF Len(s) + n > 0 THEN Len(s) + n ELSE 0)

\* the CarSearchResult built from one row; the frame's index starts at 0
CarSearchResult(idx, row, body_styles_list, features_list, match_score, match_reasons) ==
    [car_id             |-> IntToStr(idx - 1),
     year               |-> row.year,
     make               |-> row.make,
     model              |-> row.model,
     body_style         |-> Join(", ", body_styles_list),
     color              |-> row.color,
     mileage            |-> row.mileage,
     price              |-> row.price,
     fuel_type          |-> row.fuel_type,
     engine             |-> row.engine,
     transmission       |-> row.transmission,
     safety_rating      |-> row.safety_rating,
     trunk_space_liters |-> row.trunk_space_liters,
     features           |-> features_list,
     condition          |-> row.condition,
     location           |-> row.location,
     vin                |-> row.vin,
     match_score        |-> match_score,
     match_reasons      |-> match_reasons]

\* _convert_to_search_results
ConvertToSearchResults(df, scored, max_results) ==
    LET top == HeadRows(scored, max_results)
    IN  [k \in 1..Len(top) |->
            CarSearchResult(top[k].idx, df.rows[top[k].idx],
                            df.rows[top[k].idx].body_styles_list,
                            df.rows[top[k].idx].features_list,
                            top[k].match_score, top[k].match_reasons)]

\* the rows that reach scoring: Available and passing every filter
Candidates(df, query) ==
    ApplySearchFilters(df, ActiveInventory(df), ParseSearchQuery(query))

\* intelligent_search returning without an entry in search_history
LogSearchNothing(query, criteria, results) ==
    [result |-> results, raised |-> FALSE, log |-> <<>>]

\* the return value of intelligent_search and its search_history.append
LogSearch(query, criteria, results) ==
    [result |-> results, raised |-> FALSE,
     log    |-> <<[query |-> query, results_count |-> Len(results),
                   criteria |-> criteria]>>]

\* the steps of intelligent_search after the parse and the filters: scoring, conversion and
\* the search_history entry (its timestamp left out)
ScoreAndConvert(df, query, max_results, criteria, filtered, ties) ==
    IF ApplySearchFiltersRaises(df, criteria)
         \/ CalculateRelevanceScoresRaises(df, filtered, query)
    THEN [result |-> <<>>, raised |-> TRUE, log |-> <<>>]
    ELSE LogSearch(query, criteria,
                   ConvertToSearchResults(
                       df, CalculateRelevanceScores(df, filtered, query, criteria, ties),
                       max_results))

\* intelligent_search: the returned list, whether the call raised instead of returning,
\* and the entry appended to search_history, if any
IntelligentSearch(df, query, max_results, ties) ==
    IF df = None \/ Empty(df) \/ ActiveInventory(df) = <<>>
    THEN [result |-> <<>>, raised |-> FALSE, log |-> <<>>]
    ELSE ScoreAndConvert(df, query, max_results,
                         ParseSearchQuery(query), Candidates(df, query), ties)

\* two of the scored rows have the same score
HasTies(scored) ==
    \E i, j \in 1..Len(scored) :
        /\ i < j
        /\ ~ScoreLess(scored[i].match_score, scored[j].match_score)
        /\ ~ScoreLess(scored[j].match_score, scored[i].match_score)

TiesAmong(df, query, criteria, filtered) ==
    /\ ~ApplySearchFiltersRaises(df, criteria)
    /\ ~CalculateRelevanceScoresRaises(df, filtered, query)
    /\ HasTies(ScoreRows(df, filtered, query, criteria))

\* the sort of line 378 is reached with rows of equal score
SortMeetsTies(df, query) ==
    /\ df # None
    /\ ~Empty(df)
    /\ TiesAmong(df, query, ParseSearchQuery(query), Candidates(df, query))

-----------------------------------------------------------------------------
(* get_car_by_vin, reserve_vehicle, update_car_status, get_inventory_stats *)

\* the positions of the rows whose VIN is the argument, character for character
RowsWithVinUntrimmed(df, vin) ==
    SelectSeq([i \in 1..Len(df.rows) |-> i], LAMBDA i : df.rows[i].vin = vin)

\* the positions of the rows whose trimmed VIN equals the trimmed argument
RowsWithVin(df, vin) ==
    SelectSeq([i \in 1..Len(df.rows) |-> i], LAMBDA i : Strip(df.rows[i].vin) = Strip(vin))

\* get_car_by_vin
GetCarByVin(df, vin) ==
    IF df = None THEN None
    ELSE IF RowsWithVin(df, vin) = <<>> THEN None
    ELSE LET idx == RowsWithVin(df, vin)[1]
             row == df.rows[idx]
         IN  CarSearchResult(idx, row, ParseBodyStyles(row.body_styles),
                             ParseFeatures(row.features),
                             [num |-> 1, den |-> 1], <<"Direct VIN lookup">>)

\* the status written to every row with the VIN of row idx, trimmed
SetStatusSameVin(df, idx, value) ==
    [df EXCEPT !.rows = [i \in 1..Len(df.rows) |->
        IF Strip(df.rows[i].vin) = Strip(df.rows[idx].vin)
        THEN [df.rows[i] EXCEPT !.status = value] ELSE df.rows[i]]]

\* self.inventory_df.loc[idx, 'status'] = value
SetStatus(df, idx, value) == [df EXCEPT !.rows[idx].status = value]

\* reserve_vehicle without the test of line 455: any row found is reserved
ReserveTargetAnyStatus(df, vin) ==
    IF df = None THEN 0
    ELSE IF RowsWithVin(df, vin) = <<>> THEN 0
    ELSE RowsWithVin(df, vin)[1]

\* reserve_vehicle up to the write: 0 when it returns False before changing anything,
\* else the position of the row it sets to Reserved
ReserveTarget(df, vin) ==
    IF df = None THEN 0
    ELSE IF RowsWithVin(df, vin) = <<>> THEN 0
    ELSE IF df.rows[RowsWithVin(df, vin)[1]].status # "Available" THEN 0
    ELSE RowsWithVin(df, vin)[1]

\* update_car_status: the new frame and the returned value; the mask is df['vin'] == vin
UpdateCarStatus(df, vin, status) ==
    IF df = None THEN [df |-> df, result |-> FALSE]
    ELSE IF \A i \in 1..Len(df.rows) : df.rows[i].vin # vin THEN [df |-> df, result |-> FALSE]
    ELSE [df     |-> [df EXCEPT !.rows = [i \in 1..Len(df.rows) |->
                                            IF df.rows[i].vin = vin
                                            THEN [df.rows[i] EXCEPT !.status = status]
                                            ELSE df.rows[i]]],
          result |-> TRUE]

RECURSIVE SumOf(_, _)
SumOf(rows, col) == IF rows = <<>> THEN 0 ELSE rows[1][col] + SumOf(Tail(rows), col)

\* series.value_counts().to_dict(): the number of rows per value, missing values left out
ValueCounts(rows, col) ==
    [v \in {rows[i][col] : i \in 1..Len(rows)} \ {NaN} |->
        Cardinality({i \in 1..Len(rows) : rows[i][col] = v})]

\* price ranges that leave their lower bounds out
PriceRangeAboveBound(rows, name) ==
    {i \in 1..Len(rows) :
        CASE name = "under_30k"   -> rows[i].price < 30000
          [] name = "30k_to_50k"  -> rows[i].price > 30000 /\ rows[i].price < 50000
          [] name = "50k_to_100k" -> rows[i].price > 50000 /\ rows[i].price < 100000
          [] name = "over_100k"   -> rows[i].price > 100000}

\* len(df[mask]) for the masks of the price ranges
PriceRange(rows, name) ==
    {i \in 1..Len(rows) :
        CASE name = "under_30k"   -> rows[i].price < 30000
          [] name = "30k_to_50k"  -> rows[i].price >= 30000 /\ rows[i].price < 50000
          [] name = "50k_to_100k" -> rows[i].price >= 50000 /\ rows[i].price < 100000
          [] name = "over_100k"   -> rows[i].price >= 100000}

\* get_inventory_stats without the test for a table of no rows
GetInventoryStatsNoEmptyCheck(df) ==
    IF df = None THEN <<>>
    ELSE [total_vehicles  |-> Len(df.rows),
          total_value     |-> SumOf(df.rows, "price"),
          makes_count     |-> Cardinality(DOMAIN ValueCounts(df.rows, "make")),
          top_makes       |-> ValueCounts(df.rows, "make"),
          price_ranges    |->
              [name \in {"under_30k", "30k_to_50k", "50k_to_100k", "over_100k"} |->
                  Cardinality(PriceRange(df.rows, name))]]

\* get_inventory_stats; the means are fractions, and the tables modelled have fewer
\* than five makes and body styles, so head(5) keeps every entry
GetInventoryStats(df) ==
    IF df = None \/ Empty(df) THEN <<>>
    ELSE [total_vehicles  |-> Len(df.rows),
          total_value     |-> SumOf(df.rows, "price"),
          average_price   |-> [num |-> SumOf(df.rows, "price"), den |-> Len(df.rows)],
          average_mileage |-> [num |-> SumOf(df.rows, "mileage"), den |-> Len(df.rows)],
          makes_count     |-> Cardinality(DOMAIN ValueCounts(df.rows, "make")),
          top_makes       |-> ValueCounts(df.rows, "make"),
          body_styles     |-> ValueCounts(df.rows, "body_styles"),
          fuel_types      |-> ValueCounts(df.rows, "fuel_type"),
          conditions      |-> ValueCounts(df.rows, "condition"),
          price_ranges    |->
              [name \in {"under_30k", "30k_to_50k", "50k_to_100k", "over_100k"} |->
                  Cardinality(PriceRange(df.rows, name))]]

-----------------------------------------------------------------------------
(* The inputs: CSV files, VINs, statuses, queries *)

Cell(year, make, model, body, color, mileage, price, fuel, safety, features, condition) ==
    [year |-> year, make |-> make, model |-> model, body_styles |-> body, color |-> color,
     mileage |-> mileage, price |-> price, fuel_type |-> fuel, engine |-> "2.0L",
     transmission |-> "Automática", safety_rating |-> safety, trunk_space_liters |-> "470",
     features |-> features, condition |-> condition, location |-> "Madrid",
     search_text |-> ""]

\* the vehicles a file is made of, in file order: the third has the VIN of the first once
\* trimmed, the fourth has no make; their prices are bounds of the price ranges of the
\* statistics. With a query without words the first two score the
\* same (20) and the third scores more (30).
Cars ==
    <<Cell("2021", "Toyota", "Corolla", "['Sedan']", "Rojo", "12000", "18000", "Gasolina",
           "4", "Navegación, Cámara trasera", "Muy bueno") @@ [vin |-> "V1"],
      Cell("2019", "Toyota", "Camry", "['Sedan']", "Rojo", "30000", "25000", "Híbrido",
           "5", "", "Excelente") @@ [vin |-> "V2"],
      Cell("2020", "BMW", "X5", "['SUV', 'Crossover']", "Negro", "20000", "50000", "Diesel",
           "5", "Asientos de cuero, Paquete Deportivo", "Excelente") @@ [vin |-> " V1 "],
      Cell("2018", "", "F-150", "Pickup", "Blanco", "40000", "100000", "Gasolina",
           "3", "Enganche", "Bueno") @@ [vin |-> "V3"]>>

\* the status cells each vehicle is tried with
StatusCells ==
    <<{"Available", ""}, {"Available", "Reserved"}, {"Available", "Sold"}, {"Available"}>>

\* the sets of at most MaxRows vehicles
CarSets == {S \in SUBSET (1..Len(Cars)) : Cardinality(S) <= MaxRows}

\* the rows of a file holding the vehicles S in file order, with the given status cells
FileRows(S, st) ==
    [k \in 1..Cardinality(S) |-> Cars[Ascending(S)[k]] @@ [status |-> st[Ascending(S)[k]]]]

\* the status cells tried for the vehicles S
StatusChoices(S) ==
    {t \in [1..Len(Cars) -> UNION {StatusCells[k] : k \in 1..Len(Cars)}] :
        \A k \in 1..Len(Cars) : t[k] \in (IF k \in S THEN StatusCells[k] ELSE {"Available"})}

unreadable_file == [state |-> "unreadable", columns |-> {}, rows |-> <<>>]

\* the files a store is constructed on: with a status column, without one, without
\* the vin column, and unreadable
InitFiles ==
    UNION {{[state |-> "ok", columns |-> RequiredColumns \cup {"status"},
             rows |-> FileRows(S, st)] : st \in StatusChoices(S)} : S \in CarSets}
    \cup {[state |-> "ok", columns |-> RequiredColumns, rows |-> FileRows(S, [k \in 1..Len(Cars) |-> ""])] :
             S \in CarSets}
    \cup {[state |-> "ok", columns |-> (RequiredColumns \ {"vin"}) \cup {"status"},
           rows |-> FileRows({1}, [k \in 1..Len(Cars) |-> "Available"])],
          unreadable_file}

\* vehicles with a field that cannot be parsed: a bracketed body-style text that is not
\* a list, and a features cell that is a number; the first has no features
MalformedCars ==
    <<[Cars[2] EXCEPT !.body_styles = "['Sedan'"],
      [Cars[1] EXCEPT !.features = "7", !.vin = "V9"]>>

\* files of one good vehicle at most and the malformed ones, in every combination
MalformedFiles ==
    {[state |-> "ok", columns |-> RequiredColumns \cup {"status"},
      rows  |-> [k \in 1..Len(sel) |-> sel[k] @@ [status |-> "Available"]]] :
        sel \in {<<MalformedCars[1]>>, <<MalformedCars[2]>>,
                 <<MalformedCars[1], MalformedCars[2]>>,
                 <<Cars[1], MalformedCars[1]>>, <<Cars[1], MalformedCars[2]>>,
                 <<Cars[1], MalformedCars[1], MalformedCars[2]>>}}

VinArgs == {"V1", "V2 ", "V9"}

\* the VIN looked up between the other calls of the store: it is the VIN of two vehicles
LookupArgs == {"V1"}
StatusArgs == {"Available", "Sold"}
MaxResultsArgs == {-1, 1, 10}

\* the max_results the sales agents pass to intelligent_search
AgentMaxResults == {8}

Procs == {1, 2}

-----------------------------------------------------------------------------
(* The store: construction and the calls made one at a time *)

\* __init__: inventory_df = None, search_history = [], then load_inventory()
Init ==
    /\ file \in InitFiles
    /\ \E o \in LoadInventory(file, None) :
          /\ inventory_df = o.df
          /\ last_load = o.result
          /\ ret = [op |-> "load_inventory", result |-> o.result]
    /\ search_history = <<>>
    /\ reserved_ok = {}
    /\ pc = [p \in Procs |-> "idle"]
    /\ loc = [p \in Procs |-> <<>>]
    /\ quicksort_ties = "unseen"

Load ==
    /\ \E o \in LoadInventory(file, inventory_df) :
          /\ inventory_df' = o.df
          /\ last_load' = o.result
          /\ ret' = [op |-> "load_inventory", result |-> o.result]
    /\ UNCHANGED <<file, search_history, reserved_ok, pc, loc, quicksort_ties>>

\* the order this build gives rows of equal score shows when a sort first meets such rows
TiesSeen(df, query) ==
    IF quicksort_ties = "unseen" /\ SortMeetsTies(df, query) THEN TieOrders
    ELSE {quicksort_ties}

\* intelligent_search
SearchCall(query, max_results) ==
    /\ \E t \in TiesSeen(inventory_df, query) :
          /\ quicksort_ties' = t
          /\ \E o \in {IntelligentSearch(inventory_df, query, max_results, t)} :
                /\ search_history' = search_history \o o.log
                /\ ret' = [op |-> "intelligent_search", query |-> query,
                           max_results |-> max_results, result |-> o.result,
                           raised |-> o.raised]
    /\ UNCHANGED <<file, inventory_df, last_load, reserved_ok, pc, loc>>

\* intelligent_search, while search_history has fewer than MaxHistory entries
Search(query, max_results) ==
    /\ Len(search_history) < MaxHistory
    /\ SearchCall(query, max_results)

\* intelligent_search in a run of up to MaxRepeat searches
SearchAgain(query, max_results) ==
    /\ Len(search_history) < MaxRepeat
    /\ SearchCall(query, max_results)

GetCar(vin) ==
    /\ ret' = [op |-> "get_car_by_vin", vin |-> vin, result |-> GetCarByVin(inventory_df, vin)]
    /\ UNCHANGED <<file, inventory_df, search_history, last_load, reserved_ok, pc, loc, quicksort_ties>>

Stats ==
    /\ ret' = [op |-> "get_inventory_stats", result |-> GetInventoryStats(inventory_df)]
    /\ UNCHANGED <<file, inventory_df, search_history, last_load, reserved_ok, pc, loc, quicksort_ties>>

\* what a reserve_vehicle call leaves in ret: io tells whether to_csv was called and
\* how it ended, again whether a call for this VIN had returned True before
ReserveRet(vin, result, io) ==
    [op |-> "reserve_vehicle", vin |-> vin, result |-> result, io |-> io,
     again |-> Strip(vin) \in reserved_ok]

\* reserve_vehicle, its write succeeding
ReserveSaved(vin) ==
    /\ ReserveTarget(inventory_df, vin) # 0
    /\ inventory_df' = SetStatus(inventory_df, ReserveTarget(inventory_df, vin), "Reserved")
    /\ file' = ToCsv(inventory_df')
    /\ reserved_ok' = reserved_ok \cup {Strip(vin)}
    /\ ret' = ReserveRet(vin, TRUE, "saved")
    /\ UNCHANGED <<search_history, last_load, pc, loc, quicksort_ties>>

\* reserve_vehicle, to_csv raising: the status is set back, the file is whatever the
\* failed write left
ReserveNotSaved(vin) ==
    /\ ReserveTarget(inventory_df, vin) # 0
    /\ file' \in PartialWrites(
                    SetStatus(inventory_df, ReserveTarget(inventory_df, vin), "Reserved"), file)
    /\ inventory_df' = SetStatus(SetStatus(inventory_df, ReserveTarget(inventory_df, vin),
                                           "Reserved"),
                                 ReserveTarget(inventory_df, vin), "Available")
    /\ ret' = ReserveRet(vin, FALSE, "failed")
    /\ UNCHANGED <<search_history, last_load, reserved_ok, pc, loc, quicksort_ties>>

\* reserve_vehicle returning False without a write: not loaded, not found, not Available
ReserveRefused(vin) ==
    /\ ReserveTarget(inventory_df, vin) = 0
    /\ ret' = ReserveRet(vin, FALSE, "none")
    /\ UNCHANGED <<file, inventory_df, search_history, last_load, reserved_ok, pc, loc, quicksort_ties>>

Reserve(vin) == ReserveSaved(vin) \/ ReserveNotSaved(vin) \/ ReserveRefused(vin)

Update(vin, status) ==
    /\ LET o == UpdateCarStatus(inventory_df, vin, status)
       IN  /\ inventory_df' = o.df
           /\ ret' = [op |-> "update_car_status", vin |-> vin, status |-> status,
                      result |-> o.result]
    /\ UNCHANGED <<file, search_history, last_load, reserved_ok, pc, loc, quicksort_ties>>

\* the calls of the store other than update_car_status, which nothing in the
\* repository calls, searches made as the sales agents make them
NextStore ==
    \/ Load
    \/ \E q \in Queries, n \in AgentMaxResults : Search(q, n)
    \/ \E v \in LookupArgs : GetCar(v)
    \/ Stats
    \/ \E v \in VinArgs : Reserve(v)

Next ==
    \/ NextStore
    \/ \E v \in VinArgs, s \in StatusArgs : Update(v, s)

\* every public method of the store, called one at a time
Spec == Init /\ [][Next]_vars

\* the store as the repository uses it
SpecStore == Init /\ [][NextStore]_vars

-----------------------------------------------------------------------------
(* reserve_vehicle called by two threads on the shared instance returned by          *)
(* get_inventory_manager: the method takes no lock, so the threads interleave        *)
(* between its statements                                                            *)

\* lines 445-452: the not-loaded check and the search for the row
RvCall(p, vin) ==
    /\ pc[p] = "idle"
    /\ IF inventory_df # None /\ "vin" \notin inventory_df.columns
       THEN \* a table read by a load that has not checked its columns yet: KeyError
            /\ pc' = [pc EXCEPT ![p] = "return"]
            /\ loc' = [loc EXCEPT ![p] = [vin |-> vin, idx |-> 0, current_status |-> NaN,
                                         result |-> FALSE, io |-> "raised"]]
       ELSE IF inventory_df = None \/ RowsWithVin(inventory_df, vin) = <<>>
       THEN /\ pc' = [pc EXCEPT ![p] = "return"]
            /\ loc' = [loc EXCEPT ![p] = [vin |-> vin, idx |-> 0, current_status |-> NaN,
                                         result |-> FALSE, io |-> "none"]]
       ELSE /\ pc' = [pc EXCEPT ![p] = "read"]
            /\ loc' = [loc EXCEPT ![p] = [vin |-> vin, idx |-> RowsWithVin(inventory_df, vin)[1],
                                         current_status |-> NaN, result |-> FALSE,
                                         io |-> "none"]]
    /\ UNCHANGED <<file, inventory_df, search_history, ret, last_load, reserved_ok, quicksort_ties>>

\* lines 454-455: current_status is read and compared with 'Available'
RvRead(p) ==
    /\ pc[p] = "read"
    /\ IF "status" \notin inventory_df.columns
       THEN \* a table read by a load that has not added the column yet: KeyError
            /\ loc' = [loc EXCEPT ![p].io = "raised"]
            /\ pc' = [pc EXCEPT ![p] = "return"]
       ELSE LET current_status == inventory_df.rows[loc[p].idx].status
            IN  /\ loc' = [loc EXCEPT ![p].current_status = current_status]
                /\ pc' = [pc EXCEPT ![p] =
                             IF current_status = "Available" THEN "write" ELSE "return"]
    /\ UNCHANGED <<file, inventory_df, search_history, ret, last_load, reserved_ok, quicksort_ties>>

\* line 456; .loc adds the status column to a table that has none, the other cells missing
RvWrite(p) ==
    /\ pc[p] = "write"
    /\ inventory_df' = [SetStatus(inventory_df, loc[p].idx, "Reserved")
                           EXCEPT !.columns = @ \cup {"status"}]
    /\ pc' = [pc EXCEPT ![p] = "persist"]
    /\ UNCHANGED <<file, search_history, ret, last_load, reserved_ok, loc, quicksort_ties>>

\* lines 458-460: to_csv returns
RvPersistSaved(p) ==
    /\ pc[p] = "persist"
    /\ file' = ToCsv(inventory_df)
    /\ loc' = [loc EXCEPT ![p].result = TRUE, ![p].io = "saved"]
    /\ pc' = [pc EXCEPT ![p] = "return"]
    /\ UNCHANGED <<inventory_df, search_history, ret, last_load, reserved_ok, quicksort_ties>>

\* line 458 raising
RvPersistFailed(p) ==
    /\ pc[p] = "persist"
    /\ file' \in PartialWrites(inventory_df, file)
    /\ loc' = [loc EXCEPT ![p].io = "failed"]
    /\ pc' = [pc EXCEPT ![p] = "revert"]
    /\ UNCHANGED <<inventory_df, search_history, ret, last_load, reserved_ok, quicksort_ties>>

\* lines 461-465
RvRevert(p) ==
    /\ pc[p] = "revert"
    /\ inventory_df' = SetStatus(inventory_df, loc[p].idx, "Available")
    /\ pc' = [pc EXCEPT ![p] = "return"]
    /\ UNCHANGED <<file, search_history, ret, last_load, reserved_ok, loc, quicksort_ties>>

\* the return statements
RvReturn(p) ==
    /\ pc[p] = "return"
    /\ ret' = ReserveRet(loc[p].vin, loc[p].result, loc[p].io)
    /\ reserved_ok' = IF loc[p].result THEN reserved_ok \cup {Strip(loc[p].vin)} ELSE reserved_ok
    /\ pc' = [pc EXCEPT ![p] = "idle"]
    /\ loc' = [loc EXCEPT ![p] = <<>>]
    /\ UNCHANGED <<file, inventory_df, search_history, last_load, quicksort_ties>>

NextConc ==
    \E p \in Procs :
        \/ \E v \in VinArgs : RvCall(p, v)
        \/ RvRead(p)
        \/ RvWrite(p)
        \/ RvPersistSaved(p)
        \/ RvPersistFailed(p)
        \/ RvRevert(p)
        \/ RvReturn(p)

\* two threads calling reserve_vehicle on the shared store
SpecConc == Init /\ [][NextConc]_vars

-----------------------------------------------------------------------------
(* load_inventory statement by statement, next to a thread calling reserve_vehicle *)

\* lines 60-62: read_csv and the assignment to self.inventory_df; an unreadable file raises
\* and the except clause returns False
LdRead(p) ==
    /\ pc[p] = "idle"
    /\ IF file.state = "unreadable"
       THEN /\ inventory_df' = inventory_df
            /\ pc' = [pc EXCEPT ![p] = "ld_return"]
       ELSE /\ inventory_df' = ReadCsv(file)
            /\ pc' = [pc EXCEPT ![p] = "ld_check"]
    /\ loc' = [loc EXCEPT ![p] = [result |-> FALSE]]
    /\ UNCHANGED <<file, search_history, ret, last_load, reserved_ok, quicksort_ties>>

\* lines 65-75: the required columns
LdCheck(p) ==
    /\ pc[p] = "ld_check"
    /\ IF RequiredColumns \ inventory_df.columns # {}
       THEN /\ inventory_df' = None
            /\ pc' = [pc EXCEPT ![p] = "ld_return"]
       ELSE /\ inventory_df' = inventory_df
            /\ pc' = [pc EXCEPT ![p] = "ld_status"]
    /\ UNCHANGED <<file, search_history, ret, last_load, reserved_ok, loc, quicksort_ties>>

\* lines 77-82
LdStatus(p) ==
    /\ pc[p] = "ld_status"
    /\ inventory_df' = FillStatus(inventory_df)
    /\ pc' = [pc EXCEPT ![p] = "ld_lists"]
    /\ UNCHANGED <<file, search_history, ret, last_load, reserved_ok, loc, quicksort_ties>>

\* lines 85-86
LdLists(p) ==
    /\ pc[p] = "ld_lists"
    /\ inventory_df' =
          IF NumericColumn(inventory_df, "features") THEN inventory_df
          ELSE IF NumericColumn(inventory_df, "body_styles")
          THEN [AddLists(inventory_df) EXCEPT !.columns = @ \ {"body_styles_list"}]
          ELSE AddLists(inventory_df)
    /\ pc' = [pc EXCEPT ![p] =
                 IF NumericColumn(inventory_df, "features")
                      \/ NumericColumn(inventory_df, "body_styles")
                 THEN "ld_return" ELSE "ld_text"]
    /\ UNCHANGED <<file, search_history, ret, last_load, reserved_ok, loc, quicksort_ties>>

\* line 87, raising on a row with a missing text, and raising or not on a table of no rows
LdSearchText(p) ==
    /\ pc[p] = "ld_text"
    /\ \E ok \in IF inventory_df.rows = <<>> THEN BOOLEAN
                  ELSE {\A i \in 1..Len(inventory_df.rows) :
                           ~CreateSearchTextRaises(inventory_df.rows[i])} :
          /\ inventory_df' = IF ok THEN AddSearchText(inventory_df) ELSE inventory_df
          /\ loc' = [loc EXCEPT ![p].result = ok]
    /\ pc' = [pc EXCEPT ![p] = "ld_return"]
    /\ UNCHANGED <<file, search_history, ret, last_load, reserved_ok, quicksort_ties>>

\* lines 90 and 94
LdReturn(p) ==
    /\ pc[p] = "ld_return"
    /\ ret' = [op |-> "load_inventory", result |-> loc[p].result]
    /\ last_load' = loc[p].result
    /\ pc' = [pc EXCEPT ![p] = "idle"]
    /\ loc' = [loc EXCEPT ![p] = <<>>]
    /\ UNCHANGED <<file, inventory_df, search_history, reserved_ok, quicksort_ties>>

\* thread 1 calls reserve_vehicle, its writes succeeding; thread 2 calls load_inventory
NextLoadConc ==
    \/ \E v \in VinArgs : RvCall(1, v)
    \/ RvRead(1)
    \/ RvWrite(1)
    \/ RvPersistSaved(1)
    \/ RvReturn(1)
    \/ LdRead(2)
    \/ LdCheck(2)
    \/ LdStatus(2)
    \/ LdLists(2)
    \/ LdSearchText(2)
    \/ LdReturn(2)

SpecLoadConc == Init /\ [][NextLoadConc]_vars

-----------------------------------------------------------------------------
(* Stores constructed on files with fields that cannot be parsed *)

InitMalformed ==
    /\ file \in MalformedFiles
    /\ \E o \in LoadInventory(file, None) :
          /\ inventory_df = o.df
          /\ last_load = o.result
          /\ ret = [op |-> "load_inventory", result |-> o.result]
    /\ search_history = <<>>
    /\ reserved_ok = {}
    /\ pc = [p \in Procs |-> "idle"]
    /\ loc = [p \in Procs |-> <<>>]
    /\ quicksort_ties = "unseen"

NextMalformed ==
    \/ Load
    \/ Stats
    \/ \E v \in VinArgs : ReserveSaved(v)

SpecMalformed == InitMalformed /\ [][NextMalformed]_vars

-----------------------------------------------------------------------------
(* The calls that read the table, and reservations whose write succeeds *)

NextReads ==
    \/ \E q \in Queries, n \in AgentMaxResults : Search(q, n)
    \/ \E v \in VinArgs : GetCar(v)
    \/ Stats
    \/ \E v \in VinArgs : ReserveSaved(v)
    \/ \E v \in VinArgs : ReserveRefused(v)

SpecReads == Init /\ [][NextReads]_vars

-----------------------------------------------------------------------------
(* Searches over every table and every query of the model *)

NextSearch ==
    \/ \E q \in SearchQueries, n \in MaxResultsArgs : Search(q, n)
    \/ \E v \in VinArgs : ReserveSaved(v)

SpecSearch == Init /\ [][NextSearch]_vars

-----------------------------------------------------------------------------
(* The same search made more than once, other searches and reservations in between *)

NextRepeat ==
    \/ \E q \in Queries, n \in MaxResultsArgs : SearchAgain(q, n)
    \/ \E v \in VinArgs : ReserveSaved(v)

SpecRepeat == Init /\ [][NextRepeat]_vars

-----------------------------------------------------------------------------
(* Lookups by VIN, of vehicles Available and Reserved *)

NextLookup ==
    \/ \E v \in VinArgs : GetCar(v)
    \/ \E v \in VinArgs : ReserveSaved(v)

SpecLookup == Init /\ [][NextLookup]_vars

-----------------------------------------------------------------------------
(* Properties *)

\* the row of the table a search result was built from
RowOf(df, r) == df.rows[StrToInt(r.car_id) + 1]

\* the first row whose trimmed VIN is that of vin is Available
FirstRowAvailable(df, vin) ==
    /\ df # None
    /\ \E i \in 1..Len(df.rows) :
          /\ Strip(df.rows[i].vin) = Strip(vin)
          /\ df.rows[i].status = "Available"
          /\ \A j \in 1..(i - 1) : Strip(df.rows[j].vin) # Strip(vin)

\* no two rows have the same trimmed VIN
UniqueVins(df) ==
    \A i, j \in 1..Len(df.rows) : i # j => Strip(df.rows[i].vin) # Strip(df.rows[j].vin)

\* C1: in a sequential run of reserve_vehicle, searches, lookups, stats and reloads, a
\* reserve_vehicle call never returns success for a VIN for which an earlier call
\* returned success, and a reserve_vehicle call on a VIN whose first row is Available
\* returns success whenever its write to the file does not fail.
C1_ReserveOncePerVin ==
    [][ret'.op = "reserve_vehicle" =>
          /\ ~(ret'.result /\ ret'.again)
          /\ (FirstRowAvailable(inventory_df, ret'.vin) /\ ret'.io # "failed") => ret'.result
          /\ ret'.result => FirstRowAvailable(inventory_df, ret'.vin)]_vars

\* a second reserve_vehicle of a VIN was refused after the first had succeeded
C1_Witness ==
    /\ ret.op = "reserve_vehicle"
    /\ ret.again
    /\ ~ret.result
    /\ inventory_df # None
    /\ \E i \in 1..Len(inventory_df.rows) :
          /\ Strip(inventory_df.rows[i].vin) = Strip(ret.vin)
          /\ inventory_df.rows[i].status = "Reserved"

MeetsCriteria(row, criteria) ==
    /\ Has(criteria, "min_price") => row.price >= criteria.min_price
    /\ Has(criteria, "max_price") => row.price <= criteria.max_price
    /\ Has(criteria, "max_mileage") => row.mileage <= criteria.max_mileage
    /\ \A c \in {"color", "make", "fuel_type"} :
          Has(criteria, c) => (row[c] # NaN /\ Lower(row[c]) = Lower(criteria[c]))
    /\ Has(criteria, "body_style") =>
          \E k \in 1..Len(row.body_styles_list) :
              Contains(Lower(row.body_styles_list[k]), Lower(criteria.body_style))

\* the positions of the rows that are Available and meet the criteria parsed from query
ExpectedCandidates(df, query) ==
    {i \in 1..Len(df.rows) :
        df.rows[i].status = "Available" /\ MeetsCriteria(df.rows[i], ParseSearchQuery(query))}

SeqRange(s) == {s[k] : k \in 1..Len(s)}

\* C10: the rows that intelligent_search scores are exactly the Available rows that
\* meet every criterion parsed from the query, whatever required_features holds, and
\* without truncation they are the rows returned.
C10_CandidatesIffCriteria ==
    (ret.op = "intelligent_search" /\ inventory_df # None) =>
        /\ SeqRange(Candidates(inventory_df, ret.query))
               = ExpectedCandidates(inventory_df, ret.query)
        /\ (~ret.raised /\ ret.max_results >= Len(inventory_df.rows)) =>
               {StrToInt(ret.result[k].car_id) + 1 : k \in 1..Len(ret.result)}
                   = ExpectedCandidates(inventory_df, ret.query)

\* scenario 1: of two Available red sedans priced 18000 and 25000, the query
\* "sedan rojo menos de 20000" returns the first only
C10_Witness ==
    /\ ret.op = "intelligent_search"
    /\ ret.query = "sedan rojo menos de 20000"
    /\ ret.max_results = 10
    /\ inventory_df # None
    /\ Len(inventory_df.rows) = 2
    /\ \A i \in 1..2 : /\ inventory_df.rows[i].status = "Available"
                       /\ inventory_df.rows[i].color = "Rojo"
                       /\ inventory_df.rows[i].body_styles_list = <<"Sedan">>
    /\ inventory_df.rows[1].price = 18000
    /\ inventory_df.rows[2].price = 25000
    /\ Len(ret.result) = 1
    /\ ret.result[1].price = 18000

\* a thread between its read of 'Available' and the end of its change of the row
InReserve(p) == pc[p] \in {"write", "persist", "revert"}

\* C2: two reserve_vehicle calls running concurrently on the shared store are
\* serialized: no two calls are at once between having read Available for the same row
\* and having finished with it, and no call returns success for a VIN for which a call
\* has already returned success.
C2_ReserveSerialized ==
    /\ \A p, q \in Procs :
          (p # q /\ InReserve(p) /\ InReserve(q)) => loc[p].idx # loc[q].idx
    /\ ret.op = "reserve_vehicle" => ~(ret.result /\ ret.again)

\* the status load_inventory would give row i of the file
PersistedStatus(f, i) ==
    IF "status" \in f.columns /\ ReadCell(f.rows[i].status) # NaN
    THEN ReadCell(f.rows[i].status)
    ELSE "Available"

\* C4: after every reserve_vehicle call returns, the file holds the rows of the
\* in-memory table, each with the status it has in memory; and a call whose write
\* failed returns failure with the row Available in memory.
C4_MemoryEqualsFile ==
    (ret.op = "reserve_vehicle" /\ inventory_df # None) =>
        /\ file.state = "ok"
        /\ Len(file.rows) = Len(inventory_df.rows)
        /\ \A i \in 1..Len(inventory_df.rows) :
              i <= Len(file.rows) => PersistedStatus(file, i) = inventory_df.rows[i].status
        /\ ret.io = "failed" =>
              (~ret.result /\ FirstRowAvailable(inventory_df, ret.vin))

\* C5: a reserve_vehicle call whose VIN matches no row, or whose row is Reserved, or
\* that is made on a store whose last load failed, returns failure and leaves the
\* in-memory table and the file as they were.
C5_RefusedReserveChangesNothing ==
    [][(/\ ret'.op = "reserve_vehicle"
        /\ \/ ~last_load
           \/ inventory_df = None
           \/ RowsWithVin(inventory_df, ret'.vin) = <<>>
           \/ inventory_df.rows[RowsWithVin(inventory_df, ret'.vin)[1]].status = "Reserved")
          => (~ret'.result /\ inventory_df' = inventory_df /\ file' = file)]_vars

\* C6: a load_inventory that follows a successful reserve_vehicle(v) succeeds, shows v
\* as Reserved and leaves the status and the descriptive fields of every row as they
\* were before the reload.
C6_ReserveReloadRoundTrip ==
    [][(ret.op = "reserve_vehicle" /\ ret.result /\ ret'.op = "load_inventory") =>
          /\ ret'.result
          /\ inventory_df' # None
          /\ Len(inventory_df'.rows) = Len(inventory_df.rows)
          /\ \A i \in 1..Len(inventory_df.rows) :
                \A c \in RequiredColumns \cup {"status"} :
                    inventory_df'.rows[i][c] = inventory_df.rows[i][c]
          /\ \E i \in 1..Len(inventory_df'.rows) :
                /\ Strip(inventory_df'.rows[i].vin) = Strip(ret.vin)
                /\ inventory_df'.rows[i].status = "Reserved"]_vars

\* C7: whatever public method of the store is called, the status of a row changes
\* only in a reserve_vehicle call, and only from Available to Reserved.
C7_StatusOnlyReserved ==
    [][(inventory_df # None /\ inventory_df' # None
          /\ Len(inventory_df'.rows) = Len(inventory_df.rows)) =>
          \A i \in 1..Len(inventory_df.rows) :
              inventory_df'.rows[i].status # inventory_df.rows[i].status =>
                  /\ ret'.op = "reserve_vehicle"
                  /\ inventory_df.rows[i].status = "Available"
                  /\ inventory_df'.rows[i].status = "Reserved"]_vars

\* C8: while the last load of the store has succeeded, the status of every row is
\* Available or Reserved, whatever the status column of the file held.
C8_StatusInEnum ==
    (last_load /\ inventory_df # None) =>
        \A i \in 1..Len(inventory_df.rows) :
            inventory_df.rows[i].status \in {"Available", "Reserved"}

\* C9: once load_inventory has returned False, every intelligent_search returns an
\* empty list without raising, get_car_by_vin returns None, reserve_vehicle returns
\* False and get_inventory_stats returns an empty dict.
C9_FailedLoadNoData ==
    ~last_load =>
        /\ ret.op = "intelligent_search" => (~ret.raised /\ ret.result = <<>>)
        /\ ret.op = "get_car_by_vin" => ret.result = None
        /\ ret.op = "reserve_vehicle" => ~ret.result
        /\ ret.op = "get_inventory_stats" => DOMAIN ret.result = {}

\* C11: the list returned by intelligent_search is in descending order of match_score:
\* no result has a smaller score than the result after it.
C11_SortedDescending ==
    (ret.op = "intelligent_search" /\ ~ret.raised) =>
        \A k \in 1..(Len(ret.result) - 1) :
            ~ScoreLess(ret.result[k].match_score, ret.result[k + 1].match_score)

\* a search returned a row ahead of a row that precedes it in the table and scores less
C11_Witness ==
    /\ ret.op = "intelligent_search"
    /\ ~ret.raised
    /\ Len(ret.result) >= 2
    /\ ScoreLess(ret.result[2].match_score, ret.result[1].match_score)
    /\ StrToInt(ret.result[2].car_id) < StrToInt(ret.result[1].car_id)

\* the scored rows left out of a search result
LeftOut(df, r) ==
    {s \in SeqRange(ScoreRows(df, Candidates(df, r.query), r.query, ParseSearchQuery(r.query))) :
        \A k \in 1..Len(r.result) : StrToInt(r.result[k].car_id) + 1 # s.idx}

\* C12: whatever integer max_results is, intelligent_search does not raise and returns
\* at most max_results results, as many as the smaller of max_results and the number of
\* candidates, and no candidate left out scores more than a returned one.
C12_TopMaxResults ==
    ret.op = "intelligent_search" =>
        /\ ~ret.raised
        /\ Len(ret.result) <= ret.max_results
        /\ inventory_df # None =>
              /\ Len(ret.result) = Min({ret.max_results, Len(Candidates(inventory_df, ret.query))})
              /\ \A s \in LeftOut(inventory_df, ret) :
                     \A k \in 1..Len(ret.result) :
                         ~ScoreLess(ret.result[k].match_score, s.match_score)

CopiedFields ==
    {"year", "make", "model", "color", "mileage", "price", "fuel_type", "engine",
     "transmission", "safety_rating", "trunk_space_liters", "condition", "location", "vin"}

\* C14: get_car_by_vin(v) returns one record, built from the first row whose VIN equals
\* v once both are trimmed, whatever the status of that row, and returns None when no
\* row matches or no table is loaded.
C14_LookupByTrimmedVin ==
    ret.op = "get_car_by_vin" =>
        IF inventory_df = None
             \/ \A i \in 1..Len(inventory_df.rows) :
                    Strip(inventory_df.rows[i].vin) # Strip(ret.vin)
        THEN ret.result = None
        ELSE /\ ret.result # None
             /\ Strip(ret.result.vin) = Strip(ret.vin)
             /\ \A c \in CopiedFields : ret.result[c] = RowOf(inventory_df, ret.result)[c]
             /\ \A i \in 1..StrToInt(ret.result.car_id) :
                    Strip(inventory_df.rows[i].vin) # Strip(ret.vin)

\* a lookup with a trailing blank returned a vehicle that is Reserved
C14_Witness ==
    /\ ret.op = "get_car_by_vin"
    /\ ret.vin = "V2 "
    /\ ret.result # None
    /\ ret.result.vin = "V2"
    /\ RowOf(inventory_df, ret.result).status = "Reserved"

\* C15: the record returned by get_car_by_vin carries the status of the vehicle, Reserved
\* after a successful reserve_vehicle.
C15_LookupShowsStatus ==
    (ret.op = "get_car_by_vin" /\ ret.result # None) =>
        /\ "status" \in DOMAIN ret.result
        /\ ret.result.status = RowOf(inventory_df, ret.result).status

\* C16: after a successful reserve_vehicle the persisted file holds one row per vehicle and
\* its columns are exactly the required columns plus status, with no derived column.
C16_FileLayoutKept ==
    (ret.op = "reserve_vehicle" /\ ret.result = TRUE) =>
        /\ file.state = "ok"
        /\ file.columns = RequiredColumns \cup {"status"}
        /\ Len(file.rows) = Len(inventory_df.rows)

\* C17: get_inventory_stats on a table of no rows, or on a store with no table, returns
\* the empty aggregate (the call has no raising outcome).
C17_StatsOfEmptyStore ==
    (ret.op = "get_inventory_stats" /\ (inventory_df = None \/ inventory_df.rows = <<>>)) =>
        DOMAIN ret.result = {}

C17_Witness ==
    /\ ret.op = "get_inventory_stats"
    /\ inventory_df # None
    /\ inventory_df.rows = <<>>
    /\ file.state = "ok"
    /\ DOMAIN ret.result = {}

\* C18: with load_inventory and reserve_vehicle running at the same time, once no call is
\* in progress every VIN a reserve_vehicle call returned True for is Reserved in the
\* table and in the file.
C18_ReserveSurvivesLoad ==
    (\A p \in Procs : pc[p] = "idle") =>
        \A v \in reserved_ok :
            /\ inventory_df # None
            /\ RowsWithVin(inventory_df, v) # <<>>
            /\ inventory_df.rows[RowsWithVin(inventory_df, v)[1]].status = "Reserved"
            /\ file.state = "ok"
            /\ PersistedStatus(file, RowsWithVin(inventory_df, v)[1]) = "Reserved"

\* C19: results of equal match_score come in the order of the table, for every table.
C19_TiesInTableOrder ==
    (ret.op = "intelligent_search" /\ ~ret.raised) =>
        \A k \in 1..(Len(ret.result) - 1) :
            ret.result[k].match_score = ret.result[k + 1].match_score =>
                StrToInt(ret.result[k].car_id) < StrToInt(ret.result[k + 1].car_id)

\* the points a row gets apart from the text overlap, contribution by contribution
FixedPoints(row, criteria) ==
    (IF "color" \in DOMAIN criteria /\ Lower(row.color) = Lower(criteria.color) THEN 25 ELSE 0)
    + (IF "make" \in DOMAIN criteria /\ Lower(row.make) = Lower(criteria.make) THEN 30 ELSE 0)
    + (IF "body_style" \in DOMAIN criteria
          /\ \E k \in 1..Len(row.body_styles_list) :
                 Contains(Lower(row.body_styles_list[k]), Lower(criteria.body_style))
       THEN 25 ELSE 0)
    + (CASE row.condition = "Excelente" -> 10 [] row.condition = "Muy bueno" -> 5 [] OTHER -> 0)
    + (CASE row.mileage < 15000 -> 15 [] row.mileage < 25000 -> 10 [] OTHER -> 0)
    + (IF row.safety_rating = 5 THEN 10 ELSE 0)
    + 15 * Cardinality({t \in 1..Len(criteria.required_features) :
                          \E k \in 1..Len(row.features_list) :
                              Contains(Lower(row.features_list[k]),
                                       Lower(criteria.required_features[t]))})

\* the query words found in the search text of a row
WordsFound(row, query) ==
    {k \in 1..Len(Split(Lower(query))) : Contains(row.search_text, Split(Lower(query))[k])}

\* C20: the match_score of every result is 30 * (query words found in the search text) /
\* (query words), 0 for a query without words, plus 25 for the colour, 30 for the make,
\* 25 for the body style, 10 or 5 for the condition, 15 or 10 for the mileage, 10 for a
\* safety rating of 5 and 15 for each required feature found; it is never negative.
C20_ScoreIsSumOfContributions ==
    (ret.op = "intelligent_search" /\ ~ret.raised) =>
        \A k \in 1..Len(ret.result) :
            LET row   == RowOf(inventory_df, ret.result[k])
                n     == Len(Split(Lower(ret.query)))
                fixed == FixedPoints(row, ParseQuery(ret.query))
                score == ret.result[k].match_score
            IN  /\ score.num >= 0
                /\ score.den > 0
                /\ IF n = 0 THEN score.num = fixed * score.den
                   ELSE score.num * n =
                            (30 * Cardinality(WordsFound(row, ret.query)) + n * fixed) * score.den

C20_Witness ==
    /\ ret.op = "intelligent_search"
    /\ ~ret.raised
    /\ ret.query = "suv negro diesel deportivo"
    /\ Len(ret.result) = 1
    /\ ret.result[1].make = "BMW"
    /\ ret.result[1].match_score = [num |-> 500, den |-> 4]
    /\ Cardinality(WordsFound(RowOf(inventory_df, ret.result[1]), ret.query)) = 4

\* the scoring rule a reason text belongs to: 1 text overlap, 2 colour, 3 make, 4 body
\* style, 5 condition, 6 mileage, 7 safety, 8 required feature, 0 none of them
RuleOf(reason) ==
    CASE StartsWith(reason, "Coincidencia de texto (")                  -> 1
      [] StartsWith(reason, "Color exacto: ")                           -> 2
      [] StartsWith(reason, "Marca exacta: ")                           -> 3
      [] StartsWith(reason, "Tipo de carrocería: ")                     -> 4
      [] reason \in {"Condición excelente", "Muy buena condición"}      -> 5
      [] reason \in {"Bajo kilometraje", "Kilometraje moderado"}        -> 6
      [] reason = "Máxima calificación de seguridad"                    -> 7
      [] StartsWith(reason, "Característica requerida: ")               -> 8
      [] OTHER                                                          -> 0

\* the rules that add to the score of a row, in the order of the scoring rules, rule 8
\* once for every required feature found among the features of the row
RulesAdded(row, query, criteria) ==
    (IF WordsFound(row, query) # {} THEN <<1>> ELSE <<>>)
    \o (IF "color" \in DOMAIN criteria /\ Lower(row.color) = Lower(criteria.color)
        THEN <<2>> ELSE <<>>)
    \o (IF "make" \in DOMAIN criteria /\ Lower(row.make) = Lower(criteria.make)
        THEN <<3>> ELSE <<>>)
    \o (IF "body_style" \in DOMAIN criteria
           /\ \E k \in 1..Len(row.body_styles_list) :
                  Contains(Lower(row.body_styles_list[k]), Lower(criteria.body_style))
        THEN <<4>> ELSE <<>>)
    \o (IF row.condition \in {"Excelente", "Muy bueno"} THEN <<5>> ELSE <<>>)
    \o (IF row.mileage < 25000 THEN <<6>> ELSE <<>>)
    \o (IF row.safety_rating = 5 THEN <<7>> ELSE <<>>)
    \o [t \in 1..Cardinality({t \in 1..Len(criteria.required_features) :
                                \E k \in 1..Len(row.features_list) :
                                    Contains(Lower(row.features_list[k]),
                                             Lower(criteria.required_features[t]))}) |-> 8]

\* C21: the match_reasons of every result hold one reason for each contribution added to
\* its score and no other, in the order text overlap, colour, make, body style, condition,
\* mileage, safety, then one per required feature found.
C21_ReasonsFollowContributions ==
    (ret.op = "intelligent_search" /\ ~ret.raised) =>
        \A k \in 1..Len(ret.result) :
            [i \in 1..Len(ret.result[k].match_reasons) |-> RuleOf(ret.result[k].match_reasons[i])]
              = RulesAdded(RowOf(inventory_df, ret.result[k]), ret.query, ParseQuery(ret.query))

C21_Witness ==
    /\ ret.op = "intelligent_search"
    /\ ~ret.raised
    /\ ret.query = "suv negro diesel deportivo"
    /\ Len(ret.result) = 1
    /\ [i \in 1..Len(ret.result[1].match_reasons) |-> RuleOf(ret.result[1].match_reasons[i])]
         = <<1, 2, 4, 5, 6, 7, 8>>
    /\ ret.result[1].match_reasons[5] = "Kilometraje moderado"

\* the mileage ceiling a query asks for: 20000 for the two phrases without a number, the
\* number written in the query for the two phrases with one, the first phrase in list
\* order deciding; 0 when the query has none of them
MileageAsked(q) ==
    LET hits == {k \in 1..Len(mileage_patterns) : MileageMatches(q, mileage_patterns[k])}
    IN  IF hits = {} THEN 0
        ELSE IF ~mileage_patterns[Min(hits)].num THEN 20000
        ELSE StrToInt(NumGroup(q, mileage_patterns[Min(hits)].pre, mileage_patterns[Min(hits)].post))

\* C22: a search whose query has a mileage phrase is made with max_mileage set to 20000 for
\* 'pocos kilómetros' and 'bajo kilometraje', and to N for 'menos de N km' and
\* 'máximo N kilómetros', the first phrase in list order deciding.
C22_MileagePhraseSetsCeiling ==
    \A h \in 1..Len(search_history) :
        MileageAsked(Lower(search_history[h].query)) # 0 =>
            /\ "max_mileage" \in DOMAIN search_history[h].criteria
            /\ search_history[h].criteria.max_mileage = MileageAsked(Lower(search_history[h].query))

\* the price patterns that match a query, by their place in the list
PricePatternsHit(q) == {k \in 1..Len(price_patterns) : PriceMatches(q, price_patterns[k])}

\* the price bounds of criteria c are those of the first price pattern of the list that
\* matches the lower-cased query q
PriceBoundsFrom(q, c) ==
    IF PricePatternsHit(q) = {} THEN {"min_price", "max_price"} \cap DOMAIN c = {}
    ELSE IF price_patterns[Min(PricePatternsHit(q))].groups = 1
    THEN /\ "min_price" \notin DOMAIN c
         /\ "max_price" \in DOMAIN c
         /\ c.max_price = StrToInt(NumGroup(q, price_patterns[Min(PricePatternsHit(q))].pre, ""))
    ELSE /\ {"min_price", "max_price"} \subseteq DOMAIN c
         /\ <<IntToStr(c.min_price), IntToStr(c.max_price)>>
              = PairGroups(q, price_patterns[Min(PricePatternsHit(q))].pre,
                              price_patterns[Min(PricePatternsHit(q))].mid)

\* the search that has just returned got past the two early returns, so that the last
\* entry of search_history is the one it appended
JustRecorded ==
    /\ ret.op = "intelligent_search"
    /\ ~ret.raised
    /\ inventory_df # None
    /\ inventory_df.rows # <<>>
    /\ ActiveInventory(inventory_df) # <<>>
    /\ search_history # <<>>

\* C23: the price bounds a search is recorded with come from the first price pattern of
\* the list that matches the query: a pattern with one number sets max_price only, a
\* pattern with two sets min_price and max_price, and no matching pattern leaves both unset.
C23_FirstPricePatternDecides ==
    JustRecorded =>
        PriceBoundsFrom(Lower(ret.query), search_history[Len(search_history)].criteria)

C23_Witness ==
    /\ Len(search_history) = 1
    /\ search_history[1].query = "presupuesto de 30000 máximo 20000"
    /\ PricePatternsHit(search_history[1].query) = {3, 7}
    /\ search_history[1].criteria.max_price = 20000
    /\ "min_price" \notin DOMAIN search_history[1].criteria

\* the value a criterion must have for the lower-cased query q: the first entry of the
\* list with a word of it in q, "" when there is none
FirstOf(q, names, words) ==
    LET hits == {k \in 1..Len(names) : \E w \in words[k] : Contains(q, w)}
    IN  IF hits = {} THEN "" ELSE names[Min(hits)]

\* the entries of the list with a word of theirs in q, in list order
RECURSIVE AllOf(_, _, _)
AllOf(q, names, words) ==
    IF names = <<>> THEN <<>>
    ELSE (IF \E w \in words[1] : Contains(q, w) THEN <<names[1]>> ELSE <<>>)
           \o AllOf(q, Tail(names), Tail(words))

\* criterion key of a search is unset when nothing was asked for and is value otherwise,
\* upper and lower case apart
CriterionIs(c, key, value) ==
    IF value = "" THEN key \notin DOMAIN c
    ELSE key \in DOMAIN c /\ Lower(c[key]) = value

\* the criteria c other than price and mileage are those the lower-cased query q asks for
CategoriesFrom(q, c) ==
    /\ CriterionIs(c, "color", FirstOf(q, colors, [k \in 1..Len(colors) |-> {colors[k]}]))
    /\ CriterionIs(c, "make", FirstOf(q, makes, [k \in 1..Len(makes) |-> {makes[k]}]))
    /\ CriterionIs(c, "body_style",
                   FirstOf(q, [k \in 1..Len(body_styles) |-> body_styles[k].key],
                              [k \in 1..Len(body_styles) |-> body_styles[k].keywords]))
    /\ CriterionIs(c, "fuel_type",
                   FirstOf(q, [k \in 1..Len(fuel_types) |-> fuel_types[k].key],
                              [k \in 1..Len(fuel_types) |-> fuel_types[k].keywords]))
    /\ "required_features" \in DOMAIN c
    /\ c.required_features =
           AllOf(q, [k \in 1..Len(feature_keywords) |-> feature_keywords[k].key],
                    [k \in 1..Len(feature_keywords) |-> feature_keywords[k].keywords])

\* C24: colour, body style, make and fuel type a search is recorded with are each the
\* first entry of their table with a keyword in the query, whatever its case, or unset;
\* required_features holds every tag with a keyword in the query, in table order, each once.
C24_FirstEntryPerCategory ==
    JustRecorded =>
        CategoriesFrom(Lower(ret.query), search_history[Len(search_history)].criteria)

C24_Witness ==
    /\ Len(search_history) = 1
    /\ search_history[1].query = "Toyota o BMW Familiar Premium en Negro o Rojo, gasolina o híbrido"
    /\ search_history[1].criteria.color = "Rojo"
    /\ search_history[1].criteria.make = "Bmw"
    /\ search_history[1].criteria.fuel_type = "Híbrido"
    /\ "body_style" \notin DOMAIN search_history[1].criteria
    /\ search_history[1].criteria.required_features = <<"lujo", "familiar">>

\* a body-style text that opens a bracket and is not a list of quoted texts
BadBodyStyles(text) == text # NaN /\ StartsWith(text, "[") /\ ~JsonLoadsList(text)[1]

\* C25: load_inventory succeeds on a file with fields that cannot be parsed, and gives the
\* rows concerned an empty list for the field: a bracketed body-style text that is not a
\* list, a features cell that is not text.
C25_MalformedFieldsGiveEmptyLists ==
    ret.op = "load_inventory" =>
        /\ ret.result = TRUE
        /\ inventory_df # None
        /\ {"features_list", "body_styles_list"} \subseteq inventory_df.columns
        /\ \A i \in 1..Len(inventory_df.rows) :
              /\ BadBodyStyles(inventory_df.rows[i].body_styles) =>
                     inventory_df.rows[i].body_styles_list = <<>>
              /\ IsNumber(inventory_df.rows[i].features) /\ NumericColumn(inventory_df, "features") =>
                     inventory_df.rows[i].features_list = <<>>

\* the price range a price belongs to
BucketOf(price) ==
    IF price < 30000 THEN "under_30k"
    ELSE IF price < 50000 THEN "30k_to_50k"
    ELSE IF price < 100000 THEN "50k_to_100k"
    ELSE "over_100k"

\* the statistics of a table with rows count every row, whatever its status, and count it
\* in the price range of its price and in no other
StatsCountEveryRow ==
    (ret.op = "get_inventory_stats" /\ inventory_df # None /\ inventory_df.rows # <<>>) =>
        /\ ret.result.total_vehicles = Len(inventory_df.rows)
        /\ DOMAIN ret.result.price_ranges = {"under_30k", "30k_to_50k", "50k_to_100k", "over_100k"}
        /\ \A name \in DOMAIN ret.result.price_ranges :
              ret.result.price_ranges[name] =
                  Cardinality({i \in 1..Len(inventory_df.rows) :
                                  BucketOf(inventory_df.rows[i].price) = name})

\* C26: total_vehicles is the number of records of both statuses and the four price ranges
\* count every record exactly once; reserve_vehicle leaves the number of records, and
\* their prices, as they were.
C26_StatsOverFullTable ==
    /\ []StatsCountEveryRow
    /\ [][(ret'.op = "reserve_vehicle" /\ inventory_df # None) =>
              /\ inventory_df' # None
              /\ Len(inventory_df'.rows) = Len(inventory_df.rows)
              /\ \A i \in 1..Len(inventory_df.rows) :
                     inventory_df'.rows[i].price = inventory_df.rows[i].price]_vars

C26_Witness ==
    /\ ret.op = "get_inventory_stats"
    /\ inventory_df # None
    /\ Len(inventory_df.rows) = 2
    /\ inventory_df.rows[1].status = "Reserved"
    /\ "V2" \in reserved_ok
    /\ inventory_df.rows[2].price = 50000
    /\ ret.result.total_vehicles = 2
    /\ ret.result.price_ranges["under_30k"] = 1
    /\ ret.result.price_ranges["50k_to_100k"] = 1

\* C27: a call of intelligent_search, get_car_by_vin or get_inventory_stats leaves the
\* table and the file as they were; get_car_by_vin and get_inventory_stats leave
\* search_history too, and a search that returns after the two early returns appends one
\* entry to it, any other search none.
C27_ReadsChangeNothing ==
    [][ret'.op \in {"intelligent_search", "get_car_by_vin", "get_inventory_stats"} =>
          /\ inventory_df' = inventory_df
          /\ file' = file
          /\ IF /\ ret'.op = "intelligent_search"
                /\ ~ret'.raised
                /\ inventory_df # None
                /\ inventory_df.rows # <<>>
                /\ ActiveInventory(inventory_df) # <<>>
             THEN /\ Len(search_history') = Len(search_history) + 1
                  /\ SubSeq(search_history', 1, Len(search_history)) = search_history
                  /\ search_history'[Len(search_history')].query = ret'.query
                  /\ search_history'[Len(search_history')].results_count = Len(ret'.result)
             ELSE search_history' = search_history]_vars

C27_Witness ==
    /\ ret.op = "intelligent_search"
    /\ ~ret.raised
    /\ Len(search_history) = 1
    /\ search_history[1].results_count = 1
    /\ Len(ret.result) = 1
    /\ inventory_df # None
    /\ Len(inventory_df.rows) = 2
    /\ inventory_df.rows[1].status = "Reserved"
    /\ file.state = "ok"
    /\ file.rows[1].status = "Reserved"

\* the rows of a table whose VIN is that of v once both are trimmed
SameVin(df, v) == {i \in 1..Len(df.rows) : Strip(df.rows[i].vin) = Strip(v)}

\* C28: a reserve_vehicle(v) that returns True has changed the status of the first row whose
\* trimmed VIN is trimmed v from Available to Reserved and nothing else in the table, other
\* rows of that VIN included; one that returns False without writing found no such row, or
\* found the first one not Available. Only the trimmed v decides.
C28_ReserveChangesOneRow ==
    [][ret'.op = "reserve_vehicle" =>
          IF ret'.result
          THEN /\ inventory_df # None
               /\ inventory_df' # None
               /\ SameVin(inventory_df, ret'.vin) # {}
               /\ inventory_df.rows[Min(SameVin(inventory_df, ret'.vin))].status = "Available"
               /\ inventory_df'.columns = inventory_df.columns
               /\ Len(inventory_df'.rows) = Len(inventory_df.rows)
               /\ \A i \in 1..Len(inventory_df.rows) :
                      inventory_df'.rows[i] =
                          IF i = Min(SameVin(inventory_df, ret'.vin))
                          THEN [inventory_df.rows[i] EXCEPT !.status = "Reserved"]
                          ELSE inventory_df.rows[i]
          ELSE /\ inventory_df' = inventory_df
               /\ ret'.io = "none" =>
                      \/ inventory_df = None
                      \/ SameVin(inventory_df, ret'.vin) = {}
                      \/ inventory_df.rows[Min(SameVin(inventory_df, ret'.vin))].status
                           # "Available"]_vars

C28_Witness ==
    /\ ret.op = "reserve_vehicle"
    /\ ret.result = TRUE
    /\ ret.vin = "V1"
    /\ inventory_df # None
    /\ Len(inventory_df.rows) = 2
    /\ inventory_df.rows[1].vin = "V1"
    /\ inventory_df.rows[1].status = "Reserved"
    /\ inventory_df.rows[2].vin = " V1 "
    /\ inventory_df.rows[2].status = "Available"

\* the places of a text where a number starts
NumberStarts(q) ==
    {i \in 1..Len(q) : IsDigit(CharAt(q, i)) /\ (i = 1 \/ ~IsDigit(CharAt(q, i - 1)))}

\* the only number of the query is the N of 'menos de N km' or 'máximo N kilómetros'
OnlyNumberIsMileage(q) ==
    /\ Cardinality(NumberStarts(q)) = 1
    /\ \E k \in 1..Len(mileage_patterns) :
          /\ mileage_patterns[k].num
          /\ MileageMatches(q, mileage_patterns[k])

\* C29: a search whose only number is the N of a mileage phrase is made without min_price
\* and without max_price.
C29_MileageNumberIsNoPrice ==
    \A h \in 1..Len(search_history) :
        OnlyNumberIsMileage(Lower(search_history[h].query)) =>
            {"min_price", "max_price"} \cap DOMAIN search_history[h].criteria = {}

\* the points the colour, make and body-style criteria of a query are worth together
CriteriaPoints(criteria) ==
    (IF "color" \in DOMAIN criteria THEN 25 ELSE 0)
    + (IF "make" \in DOMAIN criteria THEN 30 ELSE 0)
    + (IF "body_style" \in DOMAIN criteria THEN 25 ELSE 0)

\* the points a row has of its own: condition, mileage, safety, required features found
RowPoints(row, criteria) ==
    (CASE row.condition = "Excelente" -> 10 [] row.condition = "Muy bueno" -> 5 [] OTHER -> 0)
    + (CASE row.mileage < 15000 -> 15 [] row.mileage < 25000 -> 10 [] OTHER -> 0)
    + (IF row.safety_rating = 5 THEN 10 ELSE 0)
    + 15 * Cardinality({t \in 1..Len(criteria.required_features) :
                          \E k \in 1..Len(row.features_list) :
                              Contains(Lower(row.features_list[k]),
                                       Lower(criteria.required_features[t]))})

\* C30: every result of a search has the bonus of each colour, make and body-style
\* criterion of the query (25, 30, 25) in its score and the reason of each in its
\* match_reasons, so these bonuses are the same number for all results of the query.
C30_CriteriaBonusesAreUniform ==
    (ret.op = "intelligent_search" /\ ~ret.raised) =>
        \A k \in 1..Len(ret.result) :
            LET row   == RowOf(inventory_df, ret.result[k])
                c     == ParseQuery(ret.query)
                n     == Len(Split(Lower(ret.query)))
                rules == {RuleOf(ret.result[k].match_reasons[i]) :
                              i \in 1..Len(ret.result[k].match_reasons)}
                score == ret.result[k].match_score
            IN  /\ "color" \in DOMAIN c => 2 \in rules
                /\ "make" \in DOMAIN c => 3 \in rules
                /\ "body_style" \in DOMAIN c => 4 \in rules
                /\ score.num * (IF n = 0 THEN 1 ELSE n) =
                       (30 * Cardinality(WordsFound(row, ret.query))
                          + (IF n = 0 THEN 1 ELSE n) * (CriteriaPoints(c) + RowPoints(row, c)))
                       * score.den

C30_Witness ==
    /\ ret.op = "intelligent_search"
    /\ ~ret.raised
    /\ ret.query = "Toyota sedán rojo"
    /\ DOMAIN ParseQuery(ret.query) = {"color", "make", "body_style", "required_features"}
    /\ Len(ret.result) = 2
    /\ \A k \in 1..2 :
          /\ {"Color exacto: Rojo", "Marca exacta: Toyota", "Tipo de carrocería: sedan"}
                \subseteq {ret.result[k].match_reasons[i] :
                              i \in 1..Len(ret.result[k].match_reasons)}
          /\ ret.result[k].match_score = [num |-> 360, den |-> 3]

====
